---- MODULE Spec2Model ----
(***************************************************************************)
(* didtool.scorecard.ScoreCardTransformer: fit / transform.                *)
(*                                                                         *)
(* Numbers.  Python floats are modelled by exact fractions <<n, d>> in     *)
(* lowest terms with d > 0; the two exceptional float values pandas        *)
(* produces in this code are inf = <<1, 0>> (x / 0, x > 0) and              *)
(* NaN = <<0, 0>> (0 / 0, or a cell that index alignment left unfilled).   *)
(* Probabilities are fixed-point: a probability is a whole number of ticks *)
(* and 1.0 is n_bins * Step ticks, so that _step = 1.0 / n_bins is Step    *)
(* ticks and every bin boundary and every bin midpoint is a whole tick.    *)
(* A data frame with index range(k) is a sequence of k records: the row    *)
(* with index label i is element i + 1.  None is the empty sequence.       *)
(***************************************************************************)
EXTENDS Integers, Sequences, FiniteSets, TLC

\* ------------------------------------------------------------ bounds
\* n_bins given to the constructor.
NBins == 4
\* pdo given to the constructor.
Pdo == 2
\* Longest pair of arrays given to fit, then to transform, in Spec.
MaxLen == 3
\* Longest pair of arrays given to fit in Spec when the arrays are of any
\* kinds and lengths.
MaxShapeLen == 1
\* Longest pair of arrays given to fit in SpecFit.
MaxSamples == 5
\* Longest array given to transform.
MaxTransformLen == 1

\* ------------------------------------------------------------ constants
\* standard_score default of the constructor.
StandardScore == 500
\* Ticks in one _step (see the header): _step = 1.0 / n_bins.
Step == 2
\* standard_odds given to the constructor, as a fraction.
StandardOdds == <<1, 2>>

VARIABLES
    n_bins, standard_score, standard_odds, pdo, bad_flag,  \* self._* configuration
    binning_df, mapping_df,                                \* self.binning_df, self.mapping_df
    fit_x, fit_y, x_kind, y_kind,                          \* arguments of the fit call
    fit_result,                                            \* how the fit call ended
    adjusted_df,                                           \* what __adjust_odds returned in that call
    tx, res, transform_result                              \* argument, result and ending of the last transform call

vars == <<n_bins, standard_score, standard_odds, pdo, bad_flag, binning_df,
          mapping_df, fit_x, fit_y, x_kind, y_kind, fit_result, adjusted_df,
          tx, res, transform_result>>

config == <<n_bins, standard_score, standard_odds, pdo, bad_flag>>

None == << >>

\* ------------------------------------------------------------ float arithmetic
NaN == <<0, 0>>
Inf == <<1, 0>>

Abs(a) == IF a < 0 THEN -a ELSE a

RECURSIVE GCD(_, _)
GCD(a, b) == IF b = 0 THEN a ELSE GCD(b, a % b)

Frac(n, d) ==
    IF d = 0 THEN (IF n = 0 THEN NaN ELSE Inf)
    ELSE LET s == IF d < 0 THEN -1 ELSE 1
             g == GCD(Abs(n), Abs(d))
         IN  <<(s * n) \div g, (s * d) \div g>>

Whole(k) == <<k, 1>>
IsNaN(a) == a = NaN
IsFinite(a) == a[2] # 0

FAdd(a, b) == IF IsNaN(a) \/ IsNaN(b) THEN NaN ELSE Frac(a[1] * b[2] + b[1] * a[2], a[2] * b[2])
FSub(a, b) == IF IsNaN(a) \/ IsNaN(b) THEN NaN ELSE Frac(a[1] * b[2] - b[1] * a[2], a[2] * b[2])
FMul(a, b) == IF IsNaN(a) \/ IsNaN(b) THEN NaN ELSE Frac(a[1] * b[1], a[2] * b[2])
\* numpy division: x / 0 is inf for x > 0 and NaN for x = 0
FDiv(a, b) == IF IsNaN(a) \/ IsNaN(b) THEN NaN ELSE Frac(a[1] * b[2], a[2] * b[1])
\* comparisons of finite values; a comparison with NaN is False in Python
FLess(a, b) == IsFinite(a) /\ IsFinite(b) /\ a[1] * b[2] < b[1] * a[2]
FLeq(a, b) == IsFinite(a) /\ IsFinite(b) /\ a[1] * b[2] <= b[1] * a[2]
FEq(a, b) == IsFinite(a) /\ IsFinite(b) /\ a = b
Zero == Whole(0)

RECURSIVE Pow(_, _)
Pow(b, e) == IF e = 0 THEN 1 ELSE b * Pow(b, e - 1)

Floor(a) == a[1] \div a[2]

\* Python 3 round(): to the nearest integer, a tie to the even one.
Round(a) ==
    LET f == Floor(a)
        twice == 2 * (a[1] - f * a[2])
    IN  IF twice < a[2] THEN f
        ELSE IF twice > a[2] THEN f + 1
        ELSE IF f % 2 = 0 THEN f ELSE f + 1

\* floor(e * log2(a)) for a finite a > 0: the k with 2^k <= a^e < 2^(k+1).
RECURSIVE UpLog(_, _, _)
UpLog(n, d, k) == IF 2 * d <= n THEN UpLog(n, 2 * d, k + 1) ELSE k
RECURSIVE DownLog(_, _, _)
DownLog(n, d, j) == IF n < d THEN DownLog(2 * n, d, j + 1) ELSE j
FloorLog2Pow(a, e) ==
    LET n == Pow(a[1], e)
        d == Pow(a[2], e)
    IN  IF n >= d THEN UpLog(n, d, 0) ELSE -DownLog(n, d, 0)
\* whether e * log2(a) is an integer
ExactLog2Pow(a, e) ==
    LET n == Pow(a[1], e)
        d == Pow(a[2], e)
        k == FloorLog2Pow(a, e)
    IN  IF k >= 0 THEN n = Pow(2, k) * d ELSE n * Pow(2, -k) = d

\* int(s + e * log2(a)) for an integer s: int() truncates toward zero.
IntOfLog(s, e, a) ==
    LET k == FloorLog2Pow(a, e)
    IN  IF s + k >= 0 \/ ExactLog2Pow(a, e) THEN s + k ELSE s + k + 1

\* ------------------------------------------------------------ data frames
Row(df, i) == df[i + 1]
Index(df) == 0 .. (Len(df) - 1)

SetMax(S) == CHOOSE m \in S : \A e \in S : e <= m
SetMin(S) == CHOOSE m \in S : \A e \in S : m <= e

\* ------------------------------------------------------------ __is_one_dim_array
\* What an argument of fit can be: a 1-d numpy array, a 2-d numpy array of
\* shape (len, 1), or a pandas Series (one-dimensional, but no numpy array).
Kinds == {"ndarray1d", "ndarray2d", "Series"}

\* isinstance(arr, np.ndarray) and arr.ndim == 1
is_one_dim_array(kind) == kind = "ndarray1d"

\* pd.DataFrame({'prob': x, 'label': y}) raises for a column that is 2-d.
FrameAccepts(kind) == kind # "ndarray2d"

\* ------------------------------------------------------------ __calc_bins
One == n_bins * Step                       \* 1.0 in ticks
Prob(t) == Frac(t, One)                    \* a tick count as a probability

\* score_df['prob']: 1.0 - prob when bad_flag
AdjustedProb(t) == IF bad_flag THEN One - t ELSE t
\* score_df['bin'] = int(prob / self._step)
ScoreBin(t) == AdjustedProb(t) \div Step

Group(x, b) == {i \in 1 .. Len(x) : ScoreBin(x[i]) = b}
\* groupby(bin).count() / .sum(), aligned on index range(n_bins): a bin with
\* no sample is missing from the group result and is left NaN; a group whose
\* bin is not in range(n_bins) is dropped.
GroupCount(g) == IF g = {} THEN NaN ELSE Whole(Cardinality(g))
GroupSum(g, y) == IF g = {} THEN NaN ELSE Whole(Cardinality({i \in g : y[i] = 1}))

\* lines 114-132: hits, bad_hits, good_hits, odds of every bin
RawBins(x, y) ==
    [k \in 1 .. n_bins |->
        LET b == k - 1
            g == Group(x, b)
            hits == GroupCount(g)
            ones == GroupSum(g, y)
            bad == IF bad_flag THEN ones ELSE FSub(hits, ones)
            good == IF bad_flag THEN FSub(hits, ones) ELSE ones
        IN  [hits |-> hits, bad_hits |-> bad, good_hits |-> good,
             odds |-> FDiv(good, bad), adjusted_odds |-> NaN]]

\* ------------------------------------------------------------ __adjust_odds
Adj(df, i) == Row(df, i).adjusted_odds

\* as ZeroedOdds, with inf and NaN replaced by 1
ZeroedOddsFilledWithOne(df) ==
    [k \in 1 .. Len(df) |->
        [df[k] EXCEPT !.adjusted_odds = IF IsFinite(df[k].odds) THEN df[k].odds ELSE Whole(1)]]

\* lines 160-162: adjusted_odds = odds, with inf and NaN replaced by 0
ZeroedOdds(df) ==
    [k \in 1 .. Len(df) |->
        [df[k] EXCEPT !.adjusted_odds = IF IsFinite(df[k].odds) THEN df[k].odds ELSE Zero]]

\* line 163: max(df['adjusted_odds'])
MaxOdds(df) ==
    LET v == {Adj(df, i) : i \in Index(df)}
    IN  CHOOSE m \in v : \A e \in v : FLeq(e, m)
\* line 164: argmax is the first position of the maximum
MaxOddsIndex(df) == LET m == MaxOdds(df) IN SetMin({i \in Index(df) : Adj(df, i) = m})

\* df[df['adjusted_odds'] != 0]: the index labels that the filter keeps
NonZeroBins(df) == {i \in Index(df) : Adj(df, i) # Zero}
\* line 165: min() of the filtered column; min() of an empty one raises
MinOdds(df) ==
    LET v == {Adj(df, i) : i \in NonZeroBins(df)}
    IN  CHOOSE m \in v : \A e \in v : FLeq(m, e)
\* the index label of the first minimum of the filtered column
MinOddsLabel(df) == LET m == MinOdds(df) IN SetMin({i \in NonZeroBins(df) : Adj(df, i) = m})
\* its position in the filtered column
MinOddsPosition(df) == LET l == MinOddsLabel(df) IN Cardinality({j \in NonZeroBins(df) : j < l})
\* line 166: Series.argmin() of the filtered column.  pandas before 1.0
\* returns the index label of the minimum, pandas from 1.0 on its position in
\* the filtered column; setup.py requires no version, so either can run.
MinOddsIndexChoices(df) == {MinOddsLabel(df), MinOddsPosition(df)}

\* lines 169-175: for i in range(min_odds_index - 1, -1, -1)
RECURSIVE LowLoop(_, _, _, _)
LowLoop(df, i, is_zero_good, min_odds) ==
    IF i < 0 THEN df
    ELSE LET z == is_zero_good \/ FEq(Row(df, i).good_hits, Zero)
             m == IF z THEN FDiv(min_odds, Whole(2)) ELSE min_odds
         IN  LowLoop(IF z THEN [df EXCEPT ![i + 1].adjusted_odds = m] ELSE df,
                     i - 1, z, m)

\* lines 178-184: for i in range(max_odds_index + 1, self._n_bins)
RECURSIVE HighLoop(_, _, _, _)
HighLoop(df, i, is_zero_bad, max_odds) ==
    IF i >= n_bins THEN df
    ELSE LET z == is_zero_bad \/ FEq(Row(df, i).bad_hits, Zero)
             m == IF z THEN FMul(max_odds, Whole(2)) ELSE max_odds
         IN  HighLoop(IF z THEN [df EXCEPT ![i + 1].adjusted_odds = m] ELSE df,
                      i + 1, z, m)

\* line 187: the stop of range(min_odds_index + 1, max_odds_index - 1)
MidStop(max_odds_index) == max_odds_index - 1

\* lines 188-193: the body of the third loop
MidValue(df, i) ==
    IF Adj(df, i) = Zero
    THEN IF Adj(df, i + 1) # Zero
         THEN FDiv(FAdd(Adj(df, i - 1), Adj(df, i + 1)), Whole(2))
         ELSE Adj(df, i - 1)
    ELSE Adj(df, i)

\* lines 187-193: for i in range(min_odds_index + 1, max_odds_index - 1)
RECURSIVE MidLoop(_, _, _)
MidLoop(df, i, stop) ==
    IF i >= stop THEN df
    ELSE MidLoop([df EXCEPT ![i + 1].adjusted_odds = MidValue(df, i)], i + 1, stop)

\* __adjust_odds from line 168 on, given the frame after line 162 and the
\* value argmin gave on line 166
adjust_odds(df, min_odds_index) ==
    LET max_odds_index == MaxOddsIndex(df)
        low == LowLoop(df, min_odds_index - 1, FALSE, MinOdds(df))
        high == HighLoop(low, max_odds_index + 1, FALSE, MaxOdds(df))
    IN  MidLoop(high, min_odds_index + 1, MidStop(max_odds_index))

\* ------------------------------------------------------------ __calc_bins, lines 135-151
\* as Score, with the odds ratio upside down
ScoreOfInverseOdds(adjusted_odds) ==
    IntOfLog(standard_score, pdo, FDiv(standard_odds, adjusted_odds))

\* lines 146-148
Score(adjusted_odds) == IntOfLog(standard_score, pdo, FDiv(adjusted_odds, standard_odds))

\* lines 135-142: prob_l, prob_r are np.arange(0, 1, step) and that plus step;
\* with bad_flag the rows are put in descending order of prob_l, then prob_l
\* and prob_r are rewritten ascending and the index is reset.
SourceRow(i) == IF bad_flag THEN n_bins - 1 - i ELSE i

FinishBins(df) ==
    [k \in 1 .. n_bins |->
        LET i == k - 1
            r == Row(df, SourceRow(i))
            prob_l == Prob(i * Step)
            prob_r == FAdd(prob_l, Prob(Step))
        IN  [prob_l |-> prob_l, prob_r |-> prob_r,
             mean_prob |-> FDiv(FAdd(prob_l, prob_r), Whole(2)),
             score |-> Score(r.adjusted_odds),
             bad_hits |-> r.bad_hits, good_hits |-> r.good_hits, hits |-> r.hits,
             odds |-> r.odds, adjusted_odds |-> r.adjusted_odds]]

\* math.log2 raises ValueError (math domain error) for 0
LogRaises(df) == \E i \in Index(df) : Adj(df, i) = Zero

\* ------------------------------------------------------------ __calc_mapping_df
Scores(bins) == {Row(bins, i).score : i \in Index(bins)}

\* lines 202-218: the anchor frame, index range(n_bins + 1)
Anchor(bins) ==
    LET max_score == SetMax(Scores(bins))
        min_score == SetMin(Scores(bins))
    IN  [k \in 1 .. n_bins + 1 |->
            LET i == k - 1 IN
            [prob_l |-> IF i = 0 THEN Zero ELSE Row(bins, i - 1).mean_prob,
             score_l |-> IF i = 0
                         THEN (IF bad_flag THEN Whole(max_score + pdo)
                                           ELSE Whole(min_score - pdo))
                         ELSE Whole(Row(bins, i - 1).score),
             prob_r |-> IF i = n_bins THEN Whole(1) ELSE Row(bins, i).mean_prob,
             score_r |-> IF i = n_bins
                         THEN (IF bad_flag
                               THEN FSub(Whole(min_score), Frac(pdo, 2))
                               ELSE FAdd(Whole(max_score), Frac(pdo, 2)))
                         ELSE Whole(Row(bins, i).score)]]

\* as Intercept, with the two products added
InterceptOfSum(a) ==
    FDiv(FAdd(FMul(a.prob_r, a.score_l), FMul(a.prob_l, a.score_r)),
         FSub(a.prob_r, a.prob_l))

\* lines 224-226
Slope(a) == FDiv(FSub(a.score_r, a.score_l), FSub(a.prob_r, a.prob_l))
Intercept(a) ==
    FDiv(FSub(FMul(a.prob_r, a.score_l), FMul(a.prob_l, a.score_r)),
         FSub(a.prob_r, a.prob_l))

\* as calc_mapping_df, with index range(n_bins)
calc_mapping_df_short(bins) ==
    LET anchor == Anchor(bins)
    IN  [k \in 1 .. n_bins |->
            [slope |-> Slope(anchor[k]), intercept |-> Intercept(anchor[k])]]

calc_mapping_df(bins) ==
    LET anchor == Anchor(bins)
    IN  [k \in 1 .. n_bins + 1 |->
            [slope |-> Slope(anchor[k]), intercept |-> Intercept(anchor[k])]]

\* ------------------------------------------------------------ arguments
\* A sample is a probability in [0, 1), as a tick, with a label in {0, 1};
\* sample code c is tick c \div 2 with label c % 2.  fit reads its arrays
\* only through per-bin counts and sums, which do not depend on the order of
\* the samples, so the arrays are enumerated in one order: ascending code.
SampleCodes == 0 .. 2 * NBins * Step - 1
SampleTick(c) == c \div 2
SampleLabel(c) == c % 2
IsAscending(s) == \A i \in 1 .. Len(s) - 1 : s[i] <= s[i + 1]
Ticks(s) == [i \in 1 .. Len(s) |-> SampleTick(s[i])]
Labels(s) == [i \in 1 .. Len(s) |-> SampleLabel(s[i])]
DropLast(a) == SubSeq(a, 1, Len(a) - 1)

\* The two arrays of samples s; cut "x" or "y" makes that array a row shorter.
Arguments(s, xk, yk, cut) ==
    [x |-> IF cut = "x" THEN DropLast(Ticks(s)) ELSE Ticks(s),
     y |-> IF cut = "y" THEN DropLast(Labels(s)) ELSE Labels(s),
     x_kind |-> xk, y_kind |-> yk]

\* kinds of two arrays that pandas can put in one frame with a default index
DataKinds == {<<"ndarray1d", "ndarray1d">>, <<"ndarray1d", "Series">>,
              <<"Series", "ndarray1d">>}

\* transform is given probabilities as ticks; One and One + 1 lie outside [0, 1)
TransformTicks == 0 .. NBins * Step + 1
InUnitInterval(t) == 0 <= t /\ t < One

\* ------------------------------------------------------------ fit
FitStays == UNCHANGED <<config, tx, res, transform_result>>

\* lines 65-66
FitRaisesDim(a) == ~is_one_dim_array(a.x_kind) /\ ~is_one_dim_array(a.y_kind)
\* lines 68-70
FitRaisesSize(a) == Len(a.x) # Len(a.y)
\* line 108
FitRaisesFrame(a) == ~FrameAccepts(a.x_kind) \/ ~FrameAccepts(a.y_kind)

Raise(what) ==
    /\ fit_result' = what
    /\ UNCHANGED <<binning_df, mapping_df>>

Fit(a) ==
    /\ fit_x' = a.x /\ fit_y' = a.y /\ x_kind' = a.x_kind /\ y_kind' = a.y_kind
    /\ FitStays
    /\ IF FitRaisesDim(a)
       THEN Raise("ValueError: x and y should be 1-dim array") /\ adjusted_df' = None
       ELSE IF FitRaisesSize(a)
       THEN Raise("ValueError: row size do not match") /\ adjusted_df' = None
       ELSE IF FitRaisesFrame(a)
       THEN Raise("ValueError: pandas: column is not 1-dimensional") /\ adjusted_df' = None
       ELSE LET zeroed == ZeroedOdds(RawBins(a.x, a.y)) IN
            IF NonZeroBins(zeroed) = {}
            THEN Raise("ValueError: min() arg is an empty sequence") /\ adjusted_df' = None
            ELSE \E min_odds_index \in MinOddsIndexChoices(zeroed) :
                    LET adjusted == adjust_odds(zeroed, min_odds_index) IN
                    /\ adjusted_df' = adjusted
                    /\ IF LogRaises(adjusted)
                       THEN Raise("ValueError: math domain error")
                       ELSE /\ binning_df' = FinishBins(adjusted)
                            /\ mapping_df' = calc_mapping_df(binning_df')
                            /\ fit_result' = "ok"

\* ------------------------------------------------------------ transform
\* line 92: int((x + self._step / 2) / self._step)
SegmentOf(t) == (2 * t + Step) \div (2 * Step)
\* lines 93-94: the left merge finds a row of mapping_df or leaves NaN
Found(t) == SegmentOf(t) \in Index(mapping_df)
\* lines 95-96
ScoreAt(t) ==
    LET m == Row(mapping_df, SegmentOf(t))
    IN  Round(FAdd(FMul(m.slope, Prob(t)), m.intercept))

\* as Transform, with the merged rows kept in self.mapping_df
TransformKeepingMerge(x) ==
    /\ tx' = x
    /\ IF \A i \in 1 .. Len(x) : Found(x[i])
       THEN /\ res' = [i \in 1 .. Len(x) |-> ScoreAt(x[i])]
            /\ transform_result' = "ok"
            /\ mapping_df' = [i \in 1 .. Len(x) |-> Row(mapping_df, SegmentOf(x[i]))]
       ELSE /\ res' = None
            /\ transform_result' = "ValueError: cannot convert float NaN to integer"
            /\ mapping_df' = mapping_df
    /\ UNCHANGED <<config, binning_df, fit_x, fit_y, x_kind, y_kind,
                   fit_result, adjusted_df>>

\* On an object that was not fitted line 93 raises TypeError before anything
\* is computed and the object is as it was: no step.
Transform(x) ==
    /\ tx' = x
    /\ IF \A i \in 1 .. Len(x) : Found(x[i])
       THEN /\ res' = [i \in 1 .. Len(x) |-> ScoreAt(x[i])]
            /\ transform_result' = "ok"
       ELSE /\ res' = None
            /\ transform_result' = "ValueError: cannot convert float NaN to integer"
    /\ UNCHANGED <<config, binning_df, mapping_df, fit_x, fit_y, x_kind, y_kind,
                   fit_result, adjusted_df>>

\* ------------------------------------------------------------ specification
\* __init__, lines 41-51
Init ==
    /\ n_bins = NBins
    /\ standard_score = StandardScore
    /\ standard_odds = StandardOdds
    /\ pdo = Pdo
    /\ bad_flag \in BOOLEAN
    /\ binning_df = None
    /\ mapping_df = None
    /\ fit_x = << >> /\ fit_y = << >>
    /\ x_kind = "ndarray1d" /\ y_kind = "ndarray1d"
    /\ fit_result = "not called"
    /\ adjusted_df = None
    /\ tx = << >> /\ res = None
    /\ transform_result = "not called"

\* One object is followed from its construction through one fit call and one
\* transform call.  transform reads nothing that a transform call writes, so
\* a later call starts from what the first one started from.

\* fit on arrays of equal length that pandas accepts
DoFit ==
    /\ fit_result = "not called"
    /\ \E k \in 0 .. MaxLen : \E s \in [1 .. k -> SampleCodes] :
          /\ IsAscending(s)
          /\ \E kinds \in DataKinds : Fit(Arguments(s, kinds[1], kinds[2], "none"))

\* fit on arrays of any kinds, of equal or of different lengths
DoFitShape ==
    /\ fit_result = "not called"
    /\ \E k \in 0 .. MaxShapeLen : \E s \in [1 .. k -> SampleCodes] :
          /\ IsAscending(s)
          /\ \E xk \in Kinds, yk \in Kinds, cut \in {"none", "x", "y"} :
                (cut = "none" \/ k > 0) /\ Fit(Arguments(s, xk, yk, cut))

\* fit on longer 1-d arrays
DoFitLong ==
    /\ fit_result = "not called"
    /\ \E k \in 0 .. MaxSamples : \E s \in [1 .. k -> SampleCodes] :
          /\ IsAscending(s)
          /\ Fit(Arguments(s, "ndarray1d", "ndarray1d", "none"))

DoTransform ==
    /\ mapping_df # None
    /\ transform_result = "not called"
    /\ \E k \in 0 .. MaxTransformLen : \E x \in [1 .. k -> TransformTicks] : Transform(x)

Next == DoFit \/ DoFitShape \/ DoTransform

Spec == Init /\ [][Next]_vars

\* The fit call alone, on longer arrays.
NextFit == DoFitLong

SpecFit == Init /\ [][NextFit]_vars

\* ------------------------------------------------------------ properties
FitCalled == fit_result # "not called"
Fitted == fit_result = "ok"
FitRaised == fit_result \notin {"not called", "ok"}
TransformReturned == transform_result = "ok"

\* what sum() makes of a count: NaN is skipped
Count(v) == IF IsNaN(v) THEN 0 ELSE v[1]

RECURSIVE SumTo(_, _)
SumTo(df, k) == IF k = 0 THEN 0 ELSE Count(df[k].hits) + SumTo(df, k - 1)

HasNonZeroOdds(df) == \E i \in Index(df) : IsFinite(Row(df, i).odds) /\ Row(df, i).odds # Zero
Positive(a) == IsFinite(a) /\ a[1] > 0

\* C1: whenever some bin has a finite nonzero raw odds value, every bin of the
\* frame that __adjust_odds returns has a strictly positive, finite adjusted_odds.
C1_AdjustedOddsPositive ==
    (adjusted_df # None /\ HasNonZeroOdds(adjusted_df))
        => \A i \in Index(adjusted_df) : Positive(Adj(adjusted_df, i))

\* C2: a fit call with an argument that is no 1-d array, or with arguments of
\* different lengths, ends in an error and computes neither bins nor mapping.
C2_BadShapeRaises ==
    (FitCalled /\ (\/ ~is_one_dim_array(x_kind)
                   \/ ~is_one_dim_array(y_kind)
                   \/ Len(fit_x) # Len(fit_y)))
        => (FitRaised /\ binning_df = None /\ mapping_df = None)

\* C3: after a fit the hits of all bins add up to the number of samples and
\* hits = good_hits + bad_hits in every bin.
C3_HitsConserved ==
    Fitted =>
        /\ SumTo(binning_df, Len(binning_df)) = Len(fit_y)
        /\ \A i \in Index(binning_df) :
              Count(Row(binning_df, i).hits)
                  = Count(Row(binning_df, i).good_hits) + Count(Row(binning_df, i).bad_hits)

DegenerateCall ==
    /\ FitCalled
    /\ is_one_dim_array(x_kind) \/ is_one_dim_array(y_kind)
    /\ FrameAccepts(x_kind) /\ FrameAccepts(y_kind)
    /\ Len(fit_x) = Len(fit_y)
    /\ ~HasNonZeroOdds(RawBins(fit_x, fit_y))

C6_TransformTotal ==
    (transform_result # "not called" /\ \A k \in 1 .. Len(tx) : InUnitInterval(tx[k]))
        => /\ TransformReturned
           /\ Len(res) = Len(tx)
           /\ \A k \in 1 .. Len(tx) :
                 /\ SegmentOf(tx[k]) \in 0 .. n_bins
                 /\ Found(tx[k])
                 /\ res[k] \in Int

\* transform of 0 and transform of the last tick below 1
C6_Witness ==
    /\ TransformReturned /\ Len(tx) = 1
    /\ tx[1] = One - 1
    /\ SegmentOf(tx[1]) = n_bins

AtMean(t, i) == Prob(t) = Row(binning_df, i).mean_prob
\* the line of the segment that transform picks for tick t, at probability q
OnLine(t, q) ==
    LET m == Row(mapping_df, SegmentOf(t))
    IN  FAdd(FMul(m.slope, q), m.intercept)

\* C8: transform of the mean_prob of a bin returns the score of the bin, within
\* one point, and the line of the segment it picks passes through the anchor
\* (mean_prob, score) of the bin.
C8_RoundTrip ==
    TransformReturned =>
        \A k \in 1 .. Len(tx) : \A i \in Index(binning_df) :
            AtMean(tx[k], i) =>
                /\ OnLine(tx[k], Row(binning_df, i).mean_prob) = Whole(Row(binning_df, i).score)
                /\ Abs(res[k] - Row(binning_df, i).score) <= 1

\* transform of the mean_prob of the last bin, on a fit whose scores differ
C8_Witness ==
    /\ TransformReturned /\ Len(tx) = 1
    /\ AtMean(tx[1], n_bins - 1)
    /\ Row(binning_df, 0).score # Row(binning_df, n_bins - 1).score

\* what the claim has bin i hold after the repair
InteriorRepair(zeroed, adjusted, i) ==
    IF Adj(zeroed, i + 1) # Zero
    THEN FDiv(FAdd(Adj(adjusted, i - 1), Adj(zeroed, i + 1)), Whole(2))
    ELSE Adj(adjusted, i - 1)

\* C9: with L the index of the minimum nonzero odds and M that of the maximum
\* odds, every bin L+1 .. M-1 whose odds are zero after the zeroing holds the
\* average of its neighbours' adjusted odds when the next one's is nonzero,
\* and the previous bin's otherwise.
C9_InteriorRepaired ==
    adjusted_df # None =>
        LET zeroed == ZeroedOdds(adjusted_df)
            L == MinOddsLabel(zeroed)
            M == MaxOddsIndex(zeroed)
        IN  \A i \in (L + 1) .. (M - 1) :
                Adj(zeroed, i) = Zero
                    => Adj(adjusted_df, i) = InteriorRepair(zeroed, adjusted_df, i)

\* the samples whose original probability lies in [i * step, (i + 1) * step)
InInterval(i) == {k \in 1 .. Len(fit_x) : fit_x[k] \div Step = i}

\* C10: with bad_flag, after a fit bin i holds the hits, good_hits and bad_hits
\* of exactly the samples whose original probability lies in its interval.
C10_BinsHoldTheirInterval ==
    (Fitted /\ bad_flag) =>
        \A i \in Index(binning_df) :
            /\ Count(Row(binning_df, i).hits) = Cardinality(InInterval(i))
            /\ Count(Row(binning_df, i).bad_hits)
                  = Cardinality({k \in InInterval(i) : fit_y[k] = 1})
            /\ Count(Row(binning_df, i).good_hits)
                  = Cardinality({k \in InInterval(i) : fit_y[k] = 0})
====
